---- MODULE Spec2Model ----
(***************************************************************************)
(* Model of flask-server/app.py: the identity table, the project table and *)
(* the request handlers signup and project_management (POST, PUT, DELETE), *)
(* with the model registry LOADED_MODELS and the database chosen by        *)
(* DATABASE_URL fixed at process start.                                    *)
(***************************************************************************)
EXTENDS Integers, Sequences, FiniteSets, TLC

(* ------------------------------------------------------------------ *)
(* Bounds                                                               *)
(* ------------------------------------------------------------------ *)

\* Largest project id the database hands out.
MaxId == 1

\* Number of requests that may be in flight at once (pipelined PUTs).
MaxInFlight == 2

\* Largest number of columns of a model's schema.
MaxColumns == 3

\* Python's None, and a key absent from a JSON object.
None == "<None>"

\* Emails that requests may carry.
Emails == {"asha@co", "ravi@co"}

\* Locations that creation requests may carry: a mapped city and an unmapped one.
Locations == {"Bengaluru", "Atlantis"}

\* Creation timestamps that clients may supply.
CreatedAts == {"2025-10-01 10:00:00"}

\* The names of the models the server tries to load.
MODEL_ASSET_MAPPING ==
  {"steel", "conductor", "transformers", "earthwire", "foundation", "reactors", "tower"}

\* Sets of models whose assets may be present at process start: none, and five
\* of the seven.
LoadableSets == { {}, MODEL_ASSET_MAPPING \ {"reactors", "tower"} }

(* ------------------------------------------------------------------ *)
(* Static data                                                          *)
(* ------------------------------------------------------------------ *)

CITY_TO_STATE_MAP ==
  [ Lucknow |-> "Uttar Pradesh", Kanpur |-> "Uttar Pradesh",
    Meerut |-> "Uttar Pradesh", Agra |-> "Uttar Pradesh",
    Varanasi |-> "Uttar Pradesh",
    Mumbai |-> "Maharashtra", Pune |-> "Maharashtra", Nagpur |-> "Maharashtra",
    Bengaluru |-> "Karnataka", Mysore |-> "Karnataka",
    Chennai |-> "Tamil Nadu", Coimbatore |-> "Tamil Nadu",
    Kolkata |-> "West Bengal", Siliguri |-> "West Bengal",
    Jaipur |-> "Rajasthan", Jodhpur |-> "Rajasthan",
    Ahmedabad |-> "Gujarat", Surat |-> "Gujarat",
    Hyderabad |-> "Telangana", Warangal |-> "Telangana",
    Delhi |-> "Delhi" ]

get_state_from_city(city) ==
  IF city \in DOMAIN CITY_TO_STATE_MAP THEN CITY_TO_STATE_MAP[city] ELSE "Unknown"

(* ------------------------------------------------------------------ *)
(* State                                                                *)
(* ------------------------------------------------------------------ *)

VARIABLES
  database_url,   \* "sqlite" (the fallback) or "postgresql" (DATABASE_URL set)
  LOADED_MODELS,  \* names of the models whose assets loaded at process start
  users,          \* User table: email -> [role, state, admin_level]
  projects,       \* Project table: id -> row
  project_id_seq, \* postgresql: last value of the project id sequence
  request,        \* the request handled last
  response,       \* its HTTP status code
  inflight,       \* PUT requests between their checks and their commit
  listing,        \* body of the last GET /api/projects: the ids of its rows
  builder         \* a call of create_feature_vector: its arguments and outcome

vars ==
  <<database_url, LOADED_MODELS, users, projects, project_id_seq, request,
    response, inflight, listing, builder>>

\* create_feature_vector has not been called.
NoCall ==
  [ input_data |-> None, columns |-> <<>>, called |-> FALSE, error |-> None,
    features_ordered |-> <<>> ]

NoRequest == [method |-> "NONE", email |-> None, id |-> 0, status |-> None,
              budget |-> None, towerType |-> None]

Init ==
  /\ database_url \in {"sqlite", "postgresql"}
  /\ LOADED_MODELS \in LoadableSets
  /\ users = [e \in {} |-> None]
  /\ projects = [i \in {} |-> None]
  /\ project_id_seq = 0
  /\ request = NoRequest
  /\ response = 0
  /\ inflight = [r \in {} |-> None]
  /\ listing = <<>>
  /\ builder = NoCall

(* ------------------------------------------------------------------ *)
(* signup                                                               *)
(* ------------------------------------------------------------------ *)

\* Signup payloads: each well-formed kind of identity, and the malformed ones.
SignupPayloads ==
  { [password |-> "pw", role |-> "employee", admin_level |-> None, state |-> None],
    [password |-> "pw", role |-> "employee", admin_level |-> "central", state |-> None],
    [password |-> "pw", role |-> "admin", admin_level |-> "state", state |-> "Karnataka"],
    [password |-> "pw", role |-> "admin", admin_level |-> "state", state |-> "Unknown"],
    [password |-> "pw", role |-> "admin", admin_level |-> "central", state |-> "Delhi"],
    [password |-> "pw", role |-> "admin", admin_level |-> "regional", state |-> "Delhi"],
    [password |-> "pw", role |-> "admin", admin_level |-> None, state |-> "Delhi"],
    [password |-> "pw", role |-> "admin", admin_level |-> "state", state |-> None],
    [password |-> None, role |-> "employee", admin_level |-> None, state |-> None],
    [password |-> "pw", role |-> None, admin_level |-> None, state |-> None] }

SignupResponse(email, data) ==
  IF email = None \/ data.password = None \/ data.role = None THEN 400
  ELSE IF data.role = "admin" /\ data.admin_level = None THEN 400
  ELSE IF data.role = "admin" /\ data.state = None THEN 400
  ELSE IF email \in DOMAIN users THEN 409
  ELSE 201

NewUser(data) ==
  [ role |-> data.role,
    state |-> data.state,
    admin_level |-> IF data.role = "admin" THEN data.admin_level ELSE None ]

Signup(email, data) ==
  LET code == SignupResponse(email, data) IN
  /\ users' = IF code = 201
               THEN [e \in DOMAIN users \cup {email} |->
                       IF e = email THEN NewUser(data) ELSE users[e]]
               ELSE users
  /\ request' = [method |-> "SIGNUP", email |-> None, id |-> 0, status |-> None,
                 budget |-> None, towerType |-> None]
  /\ response' = code
  /\ UNCHANGED <<database_url, LOADED_MODELS, projects, project_id_seq, inflight, listing, builder>>

\* User.query.filter_by(email=...).first(): the row, or None.
IsUser(email) == email \in DOMAIN users

IsAdmin(email) == IsUser(email) /\ users[email].role = "admin"

IsCentralAdmin(email) == IsAdmin(email) /\ users[email].admin_level = "central"

IsStateAdmin(email) == IsAdmin(email) /\ users[email].admin_level = "state"

(* ------------------------------------------------------------------ *)
(* create_feature_vector: its required numeric fields                   *)
(* ------------------------------------------------------------------ *)

\* str(s).split(' ')[0] on the tower types that requests carry.
FirstToken(s) ==
  CASE s = "400 kV" -> "400"
    [] s = "kV 400" -> "kV"
    [] OTHER -> s

\* The strings float() accepts, among those that requests carry.
FloatLiterals == {"400", "10000000", "2500000", "inf", "-inf", "nan"}

\* Lines 174-203: no ValueError from the tower type or the budget.
NumericFieldsOk(input_data) ==
  /\ input_data.towerType # None
  /\ input_data.towerType # ""
  /\ FirstToken(input_data.towerType) \in FloatLiterals
  /\ input_data.budget # None
  /\ input_data.budget \in FloatLiterals

(* ------------------------------------------------------------------ *)
(* create_feature_vector: the vector                                    *)
(* ------------------------------------------------------------------ *)

\* float() on the strings of FloatLiterals: the number, in Python's repr.
float(s) ==
  CASE s = "400" -> "400.0"
    [] s = "10000000" -> "10000000.0"
    [] s = "2500000" -> "2500000.0"
    [] s = "inf" -> "inf"
    [] s = "-inf" -> "-inf"
    [] s = "nan" -> "nan"

\* x / 1000000.0 on those numbers.
DividedByMillion(x) ==
  CASE x = "400.0" -> "0.0004"
    [] x = "10000000.0" -> "10.0"
    [] x = "2500000.0" -> "2.5"
    [] x = "inf" -> "inf"
    [] x = "-inf" -> "-inf"
    [] x = "nan" -> "nan"

\* The characters of the strings that the substation key is built from.
Chars(s) ==
  CASE s = "Substation_Type_ " ->
         << "S", "u", "b", "s", "t", "a", "t", "i", "o", "n", "_", "T", "y",
            "p", "e", "_", " " >>
    [] s = "AIS (Air Insulated Substation)" ->
         << "A", "I", "S", " ", "(", "A", "i", "r", " ", "I", "n", "s", "u",
            "l", "a", "t", "e", "d", " ", "S", "u", "b", "s", "t", "a", "t",
            "i", "o", "n", ")" >>
    [] s = "GIS" -> << "G", "I", "S" >>

RECURSIVE Join(_)
\* The string of a sequence of characters.
Join(cs) == IF cs = <<>> THEN "" ELSE Head(cs) \o Join(Tail(cs))

RECURSIVE replace(_, _, _)
\* str.replace(old, new): every occurrence, left to right, without overlap.
replace(cs, old, new) ==
  IF Len(cs) < Len(old) THEN cs
  ELSE IF SubSeq(cs, 1, Len(old)) = old
    THEN new \o replace(SubSeq(cs, Len(old) + 1, Len(cs)), old, new)
  ELSE <<Head(cs)>> \o replace(Tail(cs), old, new)

\* Lines 218-221.
substation_key(substation_raw) ==
  Join(replace(replace(replace(replace(
         Chars("Substation_Type_ ") \o Chars(substation_raw),
         <<" ", "(">>, <<"_", "(">>),
         <<" ">>, <<"_">>),
         <<"(">>, <<"_">>),
         <<")">>, <<>>))

\* 'if key in feature_vector: feature_vector[key] = value'.
SetIfPresent(feature_vector, key, value) ==
  IF key \in DOMAIN feature_vector
  THEN [feature_vector EXCEPT ![key] = value] ELSE feature_vector

\* Lines 171-245: the dict after the last assignment, when nothing was raised.
feature_vector(input_data, columns) ==
  LET fv0 == [col \in {columns[i] : i \in DOMAIN columns} |-> "0.0"]
      tower_kv == float(FirstToken(input_data.towerType))
      fv1 == SetIfPresent(fv0, "Voltage_kV", tower_kv)
      budget_val == float(input_data.budget)
      fv2 == SetIfPresent(fv1, "Estimated_Cost_Million", DividedByMillion(budget_val))
      fv3 == IF input_data.location # None
             THEN SetIfPresent(fv2, "Location_ " \o input_data.location, "1.0")
             ELSE fv2
      fv4 == IF input_data.substationType # None
             THEN SetIfPresent(fv3, substation_key(input_data.substationType), "1.0")
             ELSE fv3
      fv5 == IF input_data.geo # None
             THEN SetIfPresent(fv4, "Geographical_Zone_ " \o input_data.geo, "1.0")
             ELSE fv4
  IN IF input_data.taxes # None
     THEN SetIfPresent(fv5, "Taxes_Applicable_" \o input_data.taxes, "1.0")
     ELSE fv5

RECURSIVE DictKeys(_)
\* The keys of {col: 0.0 for col in columns}, in insertion order.
DictKeys(columns) ==
  IF columns = <<>> THEN <<>>
  ELSE LET front == DictKeys(SubSeq(columns, 1, Len(columns) - 1))
           last == columns[Len(columns)]
       IN IF \E i \in DOMAIN front : front[i] = last
          THEN front ELSE Append(front, last)

\* create_feature_vector returning list(feature_vector.values()).
create_feature_vector_dict_values(input_data, columns) ==
  IF ~NumericFieldsOk(input_data)
  THEN [ error |-> "ValueError", features_ordered |-> <<>> ]
  ELSE [ error |-> None,
         features_ordered |->
           [ i \in DOMAIN DictKeys(columns) |->
               feature_vector(input_data, columns)[DictKeys(columns)[i]] ] ]

\* create_feature_vector converting the tower type and the budget only when
\* the schema has their columns.
create_feature_vector_converts_on_demand(input_data, columns) ==
  IF \/ /\ \E i \in DOMAIN columns : columns[i] = "Voltage_kV"
        /\ \/ input_data.towerType \in {None, ""}
           \/ FirstToken(input_data.towerType) \notin FloatLiterals
     \/ /\ \E i \in DOMAIN columns : columns[i] = "Estimated_Cost_Million"
        /\ input_data.budget \notin FloatLiterals
  THEN [ error |-> "ValueError", features_ordered |-> <<>> ]
  ELSE [ error |-> None,
         features_ordered |->
           [ i \in DOMAIN columns |->
               feature_vector(input_data, columns)[columns[i]] ] ]

\* Lines 157-248: the ValueError of lines 200-203, or the list of line 248.
create_feature_vector(input_data, columns) ==
  IF ~NumericFieldsOk(input_data)
  THEN [ error |-> "ValueError", features_ordered |-> <<>> ]
  ELSE [ error |-> None,
         features_ordered |->
           [ i \in DOMAIN columns |->
               feature_vector(input_data, columns)[columns[i]] ] ]

(* ------------------------------------------------------------------ *)
(* POST /api/projects                                                   *)
(* ------------------------------------------------------------------ *)

ValidFeatures(location) ==
  [ budget |-> "10000000", towerType |-> "400 kV", location |-> location,
    substationType |-> "AIS (Air Insulated Substation)", geo |-> "urban",
    taxes |-> "18% GST" ]

\* {} (or a missing input_features): every key absent.
NoFeatures ==
  [ budget |-> None, towerType |-> None, location |-> None,
    substationType |-> None, geo |-> None, taxes |-> None ]

\* The input_features that creation requests carry.
FeatureInputs ==
  { ValidFeatures(l) : l \in Locations } \cup
  { NoFeatures,
    [ValidFeatures("Bengaluru") EXCEPT !.budget = "abc"],
    [ValidFeatures("Bengaluru") EXCEPT !.budget = None],
    [ValidFeatures("Bengaluru") EXCEPT !.towerType = "kV 400"],
    [ValidFeatures("Bengaluru") EXCEPT !.towerType = ""],
    [ValidFeatures("Bengaluru") EXCEPT !.towerType = None],
    [ValidFeatures("Bengaluru") EXCEPT !.location = None] }

\* The 'status' values clients put in project_details.
ClientStatuses == {"pending", "approved"}

\* The project_details that creation requests carry.
DetailInputs ==
  [ createdBy : Emails \cup {None}, status : ClientStatuses, createdAt : CreatedAts ]
  \cup { [createdBy |-> None, status |-> None, createdAt |-> None],
         [createdBy |-> "asha@co", status |-> "pending", createdAt |-> None] }

\* What a model's scaler and session do with a feature vector.
ScorerOutcomes == {"ok", "ValueError", "RuntimeError"}

IsEmptyDict(d) == \A k \in DOMAIN d : d[k] = None

\* Lines 497-505.
InitialStatus(createdBy) ==
  IF IsAdmin(createdBy) /\ users[createdBy].admin_level = "state"
    THEN "pending central approval"
  ELSE IF IsAdmin(createdBy) /\ users[createdBy].admin_level = "central"
    THEN "approved"
  ELSE "pending"

\* Forecasts with one entry per model asset bundle, loaded or not.
ForecastsEveryAsset(input_features) == [m \in MODEL_ASSET_MAPPING |-> "prediction"]

\* Line 495: one entry per model of the registry.
Forecasts(input_features) == [m \in LOADED_MODELS |-> "prediction"]

\* NewProject taking the status from the client's project_details.
NewProjectClientStatus(input_features, project_details) ==
  [ budget |-> input_features.budget,
    location |-> input_features.location,
    tower_type |-> input_features.towerType,
    substation_type |-> input_features.substationType,
    geo |-> input_features.geo,
    taxes |-> input_features.taxes,
    status |-> project_details.status,
    created_at |-> project_details.createdAt,
    created_by_email |-> project_details.createdBy,
    forecast_data |-> Forecasts(input_features) ]

\* Lines 508-520.
NewProject(input_features, project_details) ==
  [ budget |-> input_features.budget,
    location |-> input_features.location,
    tower_type |-> input_features.towerType,
    substation_type |-> input_features.substationType,
    geo |-> input_features.geo,
    taxes |-> input_features.taxes,
    status |-> InitialStatus(project_details.createdBy),
    created_at |-> project_details.createdAt,
    created_by_email |-> project_details.createdBy,
    forecast_data |-> Forecasts(input_features) ]

\* The primary key the database gives the next inserted row.
NextProjectId ==
  IF database_url = "postgresql" THEN project_id_seq + 1
  ELSE IF DOMAIN projects = {} THEN 1
  ELSE (CHOOSE i \in DOMAIN projects : \A j \in DOMAIN projects : j <= i) + 1

\* Line 94 under a database that enforces foreign keys: IntegrityError at commit.
ForeignKeyViolation(project_details) ==
  database_url = "postgresql" /\ ~IsUser(project_details.createdBy)

\* PostResponse without the central administrator check of lines 459-464.
PostResponseNoCentralCheck(input_features, project_details, scorer) ==
  IF IsEmptyDict(input_features) \/ IsEmptyDict(project_details) THEN 400
  ELSE IF LOADED_MODELS = {} THEN 503
  ELSE IF ~NumericFieldsOk(input_features) THEN 400
  ELSE IF scorer = "ValueError" THEN 400
  ELSE IF scorer # "ok" THEN 500
  ELSE IF project_details.createdBy = None \/ project_details.createdAt = None
            \/ \E k \in DOMAIN input_features : input_features[k] = None THEN 500
  ELSE IF ForeignKeyViolation(project_details) THEN 500
  ELSE 201

\* PostResponse scoring whatever create_feature_vector could not convert,
\* without the ValueError of lines 200-203 and 485-487.
PostResponseSkipsMalformed(input_features, project_details, scorer) ==
  IF IsEmptyDict(input_features) \/ IsEmptyDict(project_details) THEN 400
  ELSE IF project_details.createdBy # None
            /\ IsCentralAdmin(project_details.createdBy) THEN 403
  ELSE IF LOADED_MODELS = {} THEN 503
  ELSE IF scorer = "ValueError" THEN 400
  ELSE IF scorer # "ok" THEN 500
  ELSE IF project_details.createdBy = None \/ project_details.createdAt = None
            \/ \E k \in DOMAIN input_features : input_features[k] = None THEN 500
  ELSE IF ForeignKeyViolation(project_details) THEN 500
  ELSE 201

\* PostResponse without the 503 of lines 473 and 491-492.
PostResponseNoRegistryCheck(input_features, project_details, scorer) ==
  IF IsEmptyDict(input_features) \/ IsEmptyDict(project_details) THEN 400
  ELSE IF project_details.createdBy # None
            /\ IsCentralAdmin(project_details.createdBy) THEN 403
  ELSE IF ~NumericFieldsOk(input_features) THEN 400
  ELSE IF scorer = "ValueError" THEN 400
  ELSE IF scorer # "ok" THEN 500
  ELSE IF project_details.createdBy = None \/ project_details.createdAt = None
            \/ \E k \in DOMAIN input_features : input_features[k] = None THEN 500
  ELSE IF ForeignKeyViolation(project_details) THEN 500
  ELSE 201

\* Lines 456-530: the response of the handler.
PostResponse(input_features, project_details, scorer) ==
  IF IsEmptyDict(input_features) \/ IsEmptyDict(project_details) THEN 400
  ELSE IF project_details.createdBy # None
            /\ IsCentralAdmin(project_details.createdBy) THEN 403
  ELSE IF LOADED_MODELS = {} THEN 503
  ELSE IF ~NumericFieldsOk(input_features) THEN 400
  ELSE IF scorer = "ValueError" THEN 400
  ELSE IF scorer # "ok" THEN 500
  ELSE IF project_details.createdBy = None \/ project_details.createdAt = None
            \/ \E k \in DOMAIN input_features : input_features[k] = None THEN 500
  ELSE IF ForeignKeyViolation(project_details) THEN 500
  ELSE 201

\* The handler reaches db.session.commit() (line 524): the INSERT draws an id.
PostReachesInsert(input_features, project_details, scorer) ==
  \/ PostResponse(input_features, project_details, scorer) = 201
  \/ /\ PostResponse(input_features, project_details, scorer) = 500
     /\ scorer = "ok"
     /\ project_details.createdBy # None
     /\ project_details.createdAt # None
     /\ \A k \in DOMAIN input_features : input_features[k] # None

Post(input_features, project_details, scorer) ==
  LET code == PostResponse(input_features, project_details, scorer)
      insert == PostReachesInsert(input_features, project_details, scorer)
      id == NextProjectId
  IN
  /\ insert => id <= MaxId
  /\ projects' = IF code = 201
                 THEN [i \in DOMAIN projects \cup {id} |->
                         IF i = id THEN NewProject(input_features, project_details)
                         ELSE projects[i]]
                 ELSE projects
  /\ project_id_seq' = IF insert /\ database_url = "postgresql"
                       THEN project_id_seq + 1 ELSE project_id_seq
  /\ request' = [ method |-> "POST", email |-> project_details.createdBy,
                  id |-> IF code = 201 THEN id ELSE 0,
                  status |-> project_details.status,
                  budget |-> input_features.budget,
                  towerType |-> input_features.towerType ]
  /\ response' = code
  /\ UNCHANGED <<database_url, LOADED_MODELS, users, inflight, listing, builder>>

(* ------------------------------------------------------------------ *)
(* PUT /api/projects/<id>                                               *)
(* ------------------------------------------------------------------ *)

\* The requested statuses that PUT requests carry (None: no 'status' key).
RequestedStatuses == {"approved", "declined", "pending", "pending central approval", None}

\* The project ids that requests name: those the database hands out, and one more.
ProjectIds == 1 .. (MaxId + 1)

\* PutChecks without the self-approval check of lines 412-414.
PutChecksNoSelfCheck(email, project_id, new_status) ==
  IF project_id \notin DOMAIN projects THEN 404
  ELSE IF ~IsAdmin(email) THEN 403
  ELSE IF new_status \in {"approved", "declined"} THEN
    LET project_state == get_state_from_city(projects[project_id].location)
        user == users[email]
        status == projects[project_id].status
    IN IF status = "pending"
            /\ (user.admin_level # "state" \/ user.state # project_state) THEN 403
       ELSE IF status = "pending central approval"
            /\ user.admin_level # "central" THEN 403
       ELSE 200
  ELSE 400

\* PutChecks comparing only the admin level on a pending project (line 423).
PutChecksNoStateMatch(email, project_id, new_status) ==
  IF project_id \notin DOMAIN projects THEN 404
  ELSE IF ~IsAdmin(email) THEN 403
  ELSE IF projects[project_id].created_by_email = email THEN 403
  ELSE IF new_status \in {"approved", "declined"} THEN
    LET user == users[email]
        status == projects[project_id].status
    IN IF status = "pending" /\ user.admin_level # "state" THEN 403
       ELSE IF status = "pending central approval"
            /\ user.admin_level # "central" THEN 403
       ELSE 200
  ELSE 400

\* PutChecks without the 'pending central approval' branch of lines 428-432.
PutChecksNoCentralBranch(email, project_id, new_status) ==
  IF project_id \notin DOMAIN projects THEN 404
  ELSE IF ~IsAdmin(email) THEN 403
  ELSE IF projects[project_id].created_by_email = email THEN 403
  ELSE IF new_status \in {"approved", "declined"} THEN
    LET project_state == get_state_from_city(projects[project_id].location)
        user == users[email]
        status == projects[project_id].status
    IN IF status = "pending"
            /\ (user.admin_level # "state" \/ user.state # project_state) THEN 403
       ELSE 200
  ELSE 400

\* PutChecks testing only that the caller exists, not the role (line 409).
PutChecksNoRoleCheck(email, project_id, new_status) ==
  IF project_id \notin DOMAIN projects THEN 404
  ELSE IF ~IsUser(email) THEN 403
  ELSE IF projects[project_id].created_by_email = email THEN 403
  ELSE IF new_status \in {"approved", "declined"} THEN
    LET project_state == get_state_from_city(projects[project_id].location)
        user == users[email]
        status == projects[project_id].status
    IN IF status = "pending"
            /\ (user.admin_level # "state" \/ user.state # project_state) THEN 403
       ELSE IF status = "pending central approval"
            /\ user.admin_level # "central" THEN 403
       ELSE 200
  ELSE 400

\* PutChecks without the test of the requested status (lines 417, 444-445).
PutChecksAnyStatus(email, project_id, new_status) ==
  IF project_id \notin DOMAIN projects THEN 404
  ELSE IF ~IsAdmin(email) THEN 403
  ELSE IF projects[project_id].created_by_email = email THEN 403
  ELSE
    LET project_state == get_state_from_city(projects[project_id].location)
        user == users[email]
        status == projects[project_id].status
    IN IF status = "pending"
            /\ (user.admin_level # "state" \/ user.state # project_state) THEN 403
       ELSE IF status = "pending central approval"
            /\ user.admin_level # "central" THEN 403
       ELSE 200

\* Lines 401-432 and 444-445: the response of the checks, 200 when they all pass.
PutChecks(email, project_id, new_status) ==
  IF project_id \notin DOMAIN projects THEN 404
  ELSE IF ~IsAdmin(email) THEN 403
  ELSE IF projects[project_id].created_by_email = email THEN 403
  ELSE IF new_status \in {"approved", "declined"} THEN
    LET project_state == get_state_from_city(projects[project_id].location)
        user == users[email]
        status == projects[project_id].status
    IN IF status = "pending"
            /\ (user.admin_level # "state" \/ user.state # project_state) THEN 403
       ELSE IF status = "pending central approval"
            /\ user.admin_level # "central" THEN 403
       ELSE 200
  ELSE 400

\* Put issuing its UPDATE without the WHERE id = ? of the loaded row.
PutUpdateWithoutWhere(email, project_id, new_status) ==
  LET code == PutChecks(email, project_id, new_status) IN
  /\ projects' = IF code = 200
                 THEN [i \in DOMAIN projects |->
                         [projects[i] EXCEPT !.status = new_status]]
                 ELSE projects
  /\ request' = [method |-> "PUT", email |-> email, id |-> project_id,
                 status |-> new_status, budget |-> None, towerType |-> None]
  /\ response' = code
  /\ UNCHANGED <<database_url, LOADED_MODELS, users, project_id_seq, inflight, listing, builder>>

\* Put passing an approved pending proposal on to central approval.
PutEscalatesApproval(email, project_id, new_status) ==
  LET code == PutChecks(email, project_id, new_status) IN
  /\ projects' = IF code = 200
                 THEN [projects EXCEPT ![project_id].status =
                         IF projects[project_id].status = "pending"
                              /\ new_status = "approved"
                         THEN "pending central approval" ELSE new_status]
                 ELSE projects
  /\ request' = [method |-> "PUT", email |-> email, id |-> project_id,
                 status |-> new_status, budget |-> None, towerType |-> None]
  /\ response' = code
  /\ UNCHANGED <<database_url, LOADED_MODELS, users, project_id_seq, inflight, listing, builder>>

\* Lines 434-439, the handler run without interruption.
Put(email, project_id, new_status) ==
  LET code == PutChecks(email, project_id, new_status) IN
  /\ projects' = IF code = 200
                 THEN [projects EXCEPT ![project_id].status = new_status]
                 ELSE projects
  /\ request' = [method |-> "PUT", email |-> email, id |-> project_id,
                 status |-> new_status, budget |-> None, towerType |-> None]
  /\ response' = code
  /\ UNCHANGED <<database_url, LOADED_MODELS, users, project_id_seq, inflight, listing, builder>>

(* ------------------------------------------------------------------ *)
(* DELETE /api/projects/<id>                                            *)
(* ------------------------------------------------------------------ *)

\* DeleteResponse without the authorization check of lines 556-561.
DeleteResponseAnyRequester(requester_email, project_id) ==
  IF project_id \notin DOMAIN projects THEN 404 ELSE 200

\* Lines 545-561: the response of the checks, 200 when they all pass.
DeleteResponse(requester_email, project_id) ==
  IF project_id \notin DOMAIN projects THEN 404
  ELSE LET is_creator == projects[project_id].created_by_email = requester_email
           is_admin == IsAdmin(requester_email)
       IN IF ~is_creator /\ ~is_admin THEN 403 ELSE 200

Delete(requester_email, project_id) ==
  LET code == DeleteResponse(requester_email, project_id) IN
  /\ projects' = IF code = 200
                 THEN [i \in DOMAIN projects \ {project_id} |-> projects[i]]
                 ELSE projects
  /\ request' = [method |-> "DELETE", email |-> requester_email, id |-> project_id,
                 status |-> None, budget |-> None, towerType |-> None]
  /\ response' = code
  /\ UNCHANGED <<database_url, LOADED_MODELS, users, project_id_seq, inflight, listing, builder>>

(* ------------------------------------------------------------------ *)
(* GET /api/projects                                                    *)
(* ------------------------------------------------------------------ *)

\* Lines 344-346: the cities the map gives to the administrator's state.
cities_in_admin_state(admin_state) ==
  { city \in DOMAIN CITY_TO_STATE_MAP : CITY_TO_STATE_MAP[city] = admin_state }

\* Project.query.filter_by(created_by_email=user_email).
ProjectsCreatedBy(user_email) ==
  { i \in DOMAIN projects : projects[i].created_by_email = user_email }

\* GetProjects whose central administrator view selects every stored project.
GetProjectsCentralSeesAll(user_email) ==
  LET user == users[user_email] IN
  IF user.role = "admin" THEN
    IF user.admin_level = "state" THEN
      IF cities_in_admin_state(user.state) # {}
      THEN { i \in DOMAIN projects :
               /\ projects[i].location \in cities_in_admin_state(user.state)
               /\ projects[i].status = "pending" }
           \cup ProjectsCreatedBy(user_email)
      ELSE ProjectsCreatedBy(user_email)
    ELSE IF user.admin_level = "central" THEN DOMAIN projects
    ELSE {}
  ELSE ProjectsCreatedBy(user_email)

\* Lines 340-385: the rows the caller's query selects.
GetProjects(user_email) ==
  LET user == users[user_email] IN
  IF user.role = "admin" THEN
    IF user.admin_level = "state" THEN
      IF cities_in_admin_state(user.state) # {}
      THEN { i \in DOMAIN projects :
               /\ projects[i].location \in cities_in_admin_state(user.state)
               /\ projects[i].status = "pending" }
           \cup ProjectsCreatedBy(user_email)
      ELSE ProjectsCreatedBy(user_email)
    ELSE IF user.admin_level = "central"
      THEN { i \in DOMAIN projects : projects[i].status = "pending central approval" }
    ELSE {}
  ELSE ProjectsCreatedBy(user_email)

\* Position of a created_at string in the database's string order, for the
\* timestamps that requests carry.
CreatedAtRank(created_at) ==
  CASE created_at = "2025-10-01 10:00:00" -> 1
    [] created_at = "2025-10-02 09:30:00" -> 2
    [] OTHER -> 0

\* The orders in which a query may return the rows ids.
Orderings(ids) ==
  { rows \in [1 .. Cardinality(ids) -> ids] :
      \A a, b \in 1 .. Cardinality(ids) : a # b => rows[a] # rows[b] }

\* order_by(Project.created_at.desc()): no row comes before a later one.
OrderedByCreatedAtDesc(rows) ==
  \A a, b \in DOMAIN rows :
    a < b => CreatedAtRank(projects[rows[a]].created_at)
               >= CreatedAtRank(projects[rows[b]].created_at)

\* Lines 372-374: only the central administrator's query has an ORDER BY; the
\* other queries return their rows in the order the database chooses.
QueryOrdered(user_email) ==
  users[user_email].role = "admin" /\ users[user_email].admin_level = "central"

Get(user_email, rows) ==
  /\ IF ~IsUser(user_email)
     THEN rows = <<>> /\ response' = 404
     ELSE /\ rows \in Orderings(GetProjects(user_email))
          /\ QueryOrdered(user_email) => OrderedByCreatedAtDesc(rows)
          /\ response' = 200
  /\ listing' = rows
  /\ request' = [method |-> "GET", email |-> user_email, id |-> 0, status |-> None,
                 budget |-> None, towerType |-> None]
  /\ UNCHANGED <<database_url, LOADED_MODELS, users, projects, project_id_seq,
                 inflight, builder>>

(* ------------------------------------------------------------------ *)
(* The server handling one request at a time                            *)
(* ------------------------------------------------------------------ *)

DoSignup == \E email \in Emails, data \in SignupPayloads : Signup(email, data)

\* The scorers run only once every feature vector is built (lines 475-484).
ScorersRun(input_features, project_details) ==
  PostResponse(input_features, project_details, "ok") \in {201, 500}

DoPost ==
  \E input_features \in FeatureInputs, project_details \in DetailInputs :
    \E scorer \in IF ScorersRun(input_features, project_details)
                   THEN ScorerOutcomes ELSE {"ok"} :
       Post(input_features, project_details, scorer)

DoPut ==
  \E email \in Emails \cup {None}, project_id \in ProjectIds,
     new_status \in RequestedStatuses :
       Put(email, project_id, new_status)

DoDelete ==
  \E requester_email \in Emails \cup {None}, project_id \in ProjectIds :
       Delete(requester_email, project_id)

Next == DoSignup \/ DoPost \/ DoPut \/ DoDelete

Spec == Init /\ [][Next]_vars

(* ------------------------------------------------------------------ *)
(* The server handling PUT requests concurrently                        *)
(* ------------------------------------------------------------------ *)

\* A store the server reaches when it handles one request at a time: an
\* employee's proposal awaiting the state administrator of its region.
InitConcurrent ==
  /\ database_url \in {"sqlite", "postgresql"}
  /\ LOADED_MODELS = MODEL_ASSET_MAPPING \ {"reactors", "tower"}
  /\ users = [e \in Emails |->
               IF e = "asha@co"
               THEN [role |-> "employee", state |-> None, admin_level |-> None]
               ELSE [role |-> "admin", state |-> "Karnataka", admin_level |-> "state"]]
  /\ projects = [i \in {1} |->
                  [ budget |-> "10000000", location |-> "Bengaluru",
                    tower_type |-> "400 kV",
                    substation_type |-> "AIS (Air Insulated Substation)",
                    geo |-> "urban", taxes |-> "18% GST", status |-> "pending",
                    created_at |-> "2025-10-01 10:00:00",
                    created_by_email |-> "asha@co",
                    forecast_data |-> [m \in LOADED_MODELS |-> "prediction"] ]]
  /\ project_id_seq = IF database_url = "postgresql" THEN 1 ELSE 0
  /\ request = [method |-> "POST", email |-> "asha@co", id |-> 1, status |-> "pending",
                budget |-> "10000000", towerType |-> "400 kV"]
  /\ response = 201
  /\ inflight = [r \in {} |-> None]
  /\ listing = <<>>
  /\ builder = NoCall

\* Lines 397-435: the request loads the user and the project, runs the checks
\* and sets the status on its own session's copy of the row.  code = 0: the
\* response is still to come.
PutBegin(email, project_id, new_status) ==
  LET code == PutChecks(email, project_id, new_status)
      r == Cardinality(DOMAIN inflight) + 1
      entry == [ email |-> email, id |-> project_id, status |-> new_status,
                 loaded_status |-> IF project_id \in DOMAIN projects
                                   THEN projects[project_id].status ELSE None,
                 code |-> IF code = 200 THEN 0 ELSE code ]
  IN
  /\ r <= MaxInFlight
  /\ inflight' = [q \in DOMAIN inflight \cup {r} |->
                    IF q = r THEN entry ELSE inflight[q]]
  /\ UNCHANGED <<database_url, LOADED_MODELS, users, projects, project_id_seq,
                 request, response, listing, builder>>

\* Lines 436-443: db.session.commit() flushes UPDATE project SET status = ?
\* WHERE id = ? when the session's copy changed, whatever the row's status is by
\* now; it fails when the row is gone.
PutCommit(r) ==
  LET entry == inflight[r]
      dirty == entry.status # entry.loaded_status
      gone == entry.id \notin DOMAIN projects
  IN
  /\ entry.code = 0
  /\ projects' = IF dirty /\ ~gone
                 THEN [projects EXCEPT ![entry.id].status = entry.status]
                 ELSE projects
  /\ inflight' = [inflight EXCEPT ![r].code = IF dirty /\ gone THEN 500 ELSE 200]
  /\ UNCHANGED <<database_url, LOADED_MODELS, users, project_id_seq, request,
                 response, listing, builder>>

DoPutBegin ==
  \E email \in Emails \cup {None}, project_id \in ProjectIds,
     new_status \in RequestedStatuses :
       PutBegin(email, project_id, new_status)

DoPutCommit == \E r \in DOMAIN inflight : PutCommit(r)

NextConcurrent == DoPutBegin \/ DoPutCommit \/ DoDelete

SpecConcurrent == InitConcurrent /\ [][NextConcurrent]_vars

(* ------------------------------------------------------------------ *)
(* The server reviewing a store of two proposals                        *)
(* ------------------------------------------------------------------ *)

\* Creation timestamps of the two proposals under review.
ReviewCreatedAts == {"2025-10-01 10:00:00", "2025-10-02 09:30:00"}

\* The accepted signups of the two identities: asha as employee, central
\* administrator or administrator of an unrecognized level, ravi as state
\* administrator of Karnataka or of 'Unknown'.
ReviewSignups ==
  { su \in [Emails -> SignupPayloads] :
      /\ su["asha@co"].password # None
      /\ \/ su["asha@co"].role = "employee" /\ su["asha@co"].admin_level = None
         \/ /\ su["asha@co"].role = "admin" /\ su["asha@co"].state = "Delhi"
            /\ su["asha@co"].admin_level \in {"central", "regional"}
      /\ su["ravi@co"].role = "admin"
      /\ su["ravi@co"].admin_level = "state"
      /\ su["ravi@co"].state \in {"Karnataka", "Unknown"} }

\* The creation requests of the two proposals.
ReviewDetails ==
  [ createdBy : Emails, status : {"pending"}, createdAt : ReviewCreatedAts ]

\* The store of the fallback database after both identities signed up and two
\* creation requests were accepted (201), one after the other, the second one
\* for Bengaluru.
InitReview ==
  /\ database_url = "sqlite"
  /\ LOADED_MODELS = MODEL_ASSET_MAPPING \ {"reactors", "tower"}
  /\ \E su \in ReviewSignups :
       /\ \A e \in Emails : su[e].role # None
       /\ users = [e \in Emails |-> NewUser(su[e])]
  /\ \E f \in [1 .. 2 -> {ValidFeatures(l) : l \in Locations}],
        d \in [1 .. 2 -> ReviewDetails] :
       /\ \A i \in 1 .. 2 : ~IsCentralAdmin(d[i].createdBy)
       /\ f[2].location = "Bengaluru"
       /\ projects = [i \in 1 .. 2 |-> NewProject(f[i], d[i])]
       /\ request = [method |-> "POST", email |-> d[2].createdBy, id |-> 2,
                     status |-> d[2].status,
                     budget |-> f[2].budget, towerType |-> f[2].towerType]
  /\ project_id_seq = 0
  /\ response = 201
  /\ inflight = [r \in {} |-> None]
  /\ listing = <<>>
  /\ builder = NoCall

\* The bodies a GET may answer with: rows of stored projects, each at most once.
RowOrders == UNION { Orderings(ids) : ids \in SUBSET ProjectIds }

DoGet ==
  \E user_email \in Emails \cup {None}, rows \in RowOrders : Get(user_email, rows)

NextReview == DoGet \/ DoPut \/ DoDelete

SpecReview == InitReview /\ [][NextReview]_vars

(* ------------------------------------------------------------------ *)
(* create_feature_vector called on its own                              *)
(* ------------------------------------------------------------------ *)

\* Column names that the schemas of the models may hold: the two numeric
\* columns, one-hot columns of the four categorical fields, and a column that
\* no input field matches.
SchemaColumns ==
  { "Voltage_kV", "Estimated_Cost_Million", "Location_ Bengaluru",
    "Location_ Mumbai", "Substation_Type__AIS__Air_Insulated_Substation",
    "Geographical_Zone_ urban", "Taxes_Applicable_18% GST", "Terrain_Hilly" }

\* The schemas: every list of at most MaxColumns of these columns, a column
\* listed twice included.
Schemas == UNION { [1 .. n -> SchemaColumns] : n \in 0 .. MaxColumns }

\* The input_features that the builder is called with: those of the creation
\* requests, budgets that are not finite, another finite budget, and
\* categorical values that no schema column matches.
BuilderInputs ==
  FeatureInputs \cup
  { [ValidFeatures("Bengaluru") EXCEPT !.budget = b] :
      b \in {"inf", "-inf", "nan", "2500000"} } \cup
  { [ValidFeatures("Bengaluru") EXCEPT !.substationType = "GIS", !.geo = "rural",
                                      !.taxes = "5% GST"] }

\* The server before any request, about to build the vector of some
\* input_features for the schema of some model.
InitBuilder ==
  /\ database_url = "sqlite"
  /\ LOADED_MODELS = MODEL_ASSET_MAPPING \ {"reactors", "tower"}
  /\ users = [e \in {} |-> None]
  /\ projects = [i \in {} |-> None]
  /\ project_id_seq = 0
  /\ request = NoRequest
  /\ response = 0
  /\ inflight = [r \in {} |-> None]
  /\ listing = <<>>
  /\ \E input_data \in BuilderInputs, columns \in Schemas :
       builder = [NoCall EXCEPT !.input_data = input_data, !.columns = columns]

\* Line 475: features_ordered = create_feature_vector(input_features, columns).
Build ==
  LET outcome == create_feature_vector(builder.input_data, builder.columns) IN
  /\ ~builder.called
  /\ builder' = [builder EXCEPT !.called = TRUE,
                                !.error = outcome.error,
                                !.features_ordered = outcome.features_ordered]
  /\ UNCHANGED <<database_url, LOADED_MODELS, users, projects, project_id_seq,
                 request, response, inflight, listing>>

NextBuilder == Build

SpecBuilder == InitBuilder /\ [][NextBuilder]_vars

(* ------------------------------------------------------------------ *)
(* Properties                                                           *)
(* ------------------------------------------------------------------ *)

IsEmployee(email) == IsUser(email) /\ users[email].role = "employee"

\* The step handles a PUT on a stored proposal.
PutOnStored == request'.method = "PUT" /\ request'.id \in DOMAIN projects

\* The caller of the PUT is the state administrator of the proposal's region.
RegionAdmin(email, project_id) ==
  /\ IsStateAdmin(email)
  /\ users[email].state = get_state_from_city(projects[project_id].location)

\* C1: every successful creation stores the proposal with status 'pending' when
\* the creator is an employee and 'pending central approval' when the creator is
\* a state administrator, whatever 'status' the client put in project_details.
C1_InitialStatusByRole ==
  [][ (request'.method = "POST" /\ response' = 201) =>
        /\ request'.id \in DOMAIN projects' \ DOMAIN projects
        /\ IsEmployee(request'.email)
             => projects'[request'.id].status = "pending"
        /\ IsStateAdmin(request'.email)
             => projects'[request'.id].status = "pending central approval" ]_vars

\* C1 witness: a state administrator's creation was stored as 'pending central
\* approval' although the client asked for another status.
C1_Witness ==
  /\ request.method = "POST" /\ response = 201
  /\ IsStateAdmin(request.email)
  /\ request.id \in DOMAIN projects
  /\ projects[request.id].status = "pending central approval"
  /\ request.status # projects[request.id].status

\* No stored proposal has a central administrator as its creator.
NoCentralCreator ==
  \A i \in DOMAIN projects : ~IsCentralAdmin(projects[i].created_by_email)

\* C2: a creation request (one carrying input_features and project_details) whose
\* creator is a central administrator is refused with 403 and stores nothing,
\* whatever the features and the registry; consequently no stored proposal ever
\* has a central administrator as its creator.
C2_CentralAdminNeverCreator ==
  [][ /\ \A f \in FeatureInputs, d \in DetailInputs, s \in ScorerOutcomes :
           ( Post(f, d, s) /\ ~IsEmptyDict(f) /\ ~IsEmptyDict(d)
               /\ IsCentralAdmin(d.createdBy) )
             => (response' = 403 /\ projects' = projects)
      /\ NoCentralCreator' ]_vars

\* C3 as stated: a creation request by a central administrator, well-formed and
\* scored without failure, stores the proposal with initial status 'approved'.
C3_CentralCreationApproved ==
  [][ \A f \in FeatureInputs, d \in DetailInputs :
        ( Post(f, d, "ok") /\ IsCentralAdmin(d.createdBy) /\ LOADED_MODELS # {}
            /\ NumericFieldsOk(f) /\ d.createdAt # None
            /\ \A k \in DOMAIN f : f[k] # None )
          => /\ response' = 201
             /\ request'.id \in DOMAIN projects'
             /\ projects'[request'.id].status = "approved" ]_vars

\* C3 amended: a creation request whose creator is a central administrator stores
\* nothing, and no creation request stores a proposal with initial status
\* 'approved'.
C3_CentralCreationRefused ==
  [][ request'.method = "POST" =>
        /\ IsCentralAdmin(request'.email) => projects' = projects /\ response' # 201
        /\ response' = 201 => projects'[request'.id].status # "approved" ]_vars

\* C3 witness: a central administrator's creation request was refused with 403.
C3_Witness ==
  /\ request.method = "POST" /\ IsCentralAdmin(request.email)
  /\ response = 403 /\ request.id = 0

\* C4: a PUT whose caller's email is the proposal's creator email is refused with
\* 403 and changes nothing, for every caller, current status and requested status.
C4_NoSelfApproval ==
  [][ ( PutOnStored
        /\ projects[request'.id].created_by_email = request'.email )
      => (response' = 403 /\ projects' = projects) ]_vars

\* C4 witness: an administrator asked to approve their own proposal and got 403.
C4_Witness ==
  /\ request.method = "PUT" /\ request.id \in DOMAIN projects
  /\ projects[request.id].created_by_email = request.email
  /\ IsAdmin(request.email)
  /\ request.status = "approved"
  /\ response = 403

\* C5: on a proposal whose status is 'pending', a PUT succeeds only if the caller
\* is a state administrator whose home state is get_state_from_city(location);
\* every other caller leaves it 'pending', and is answered 403 when asking for
\* 'approved' or 'declined'.
C5_PendingOnlyRegionAdmin ==
  [][ ( PutOnStored /\ projects[request'.id].status = "pending" ) =>
        /\ response' = 200 => RegionAdmin(request'.email, request'.id)
        /\ ~RegionAdmin(request'.email, request'.id) =>
             /\ projects' = projects
             /\ response' # 200
             /\ request'.status \in {"approved", "declined"} => response' = 403 ]_vars

\* C5 witness: a state administrator of another state asked to approve a pending
\* proposal and got 403.
C5_Witness ==
  /\ request.method = "PUT" /\ request.id \in DOMAIN projects
  /\ projects[request.id].status = "pending"
  /\ IsStateAdmin(request.email)
  /\ users[request.email].state # get_state_from_city(projects[request.id].location)
  /\ projects[request.id].created_by_email # request.email
  /\ request.status = "approved"
  /\ response = 403

\* C5 witness of the success case: the state administrator of the proposal's
\* region approved a pending proposal.
C5_WitnessApproved ==
  /\ request.method = "PUT" /\ request.id \in DOMAIN projects
  /\ RegionAdmin(request.email, request.id)
  /\ projects[request.id].status = "approved"
  /\ response = 200

\* C6: on a proposal whose status is 'pending central approval', a PUT succeeds
\* only if the caller is a central administrator; a state administrator or an
\* administrator with no recognized level leaves it unchanged, and is answered
\* 403 when asking for 'approved' or 'declined'.
C6_CentralApprovalOnlyCentral ==
  [][ ( PutOnStored /\ projects[request'.id].status = "pending central approval" ) =>
        /\ response' = 200 => IsCentralAdmin(request'.email)
        /\ ~IsCentralAdmin(request'.email) =>
             /\ projects' = projects
             /\ response' # 200
             /\ request'.status \in {"approved", "declined"} => response' = 403 ]_vars

\* C6 witness: a state administrator other than the creator asked to approve a
\* proposal pending central approval and got 403.
C6_Witness ==
  /\ request.method = "PUT" /\ request.id \in DOMAIN projects
  /\ projects[request.id].status = "pending central approval"
  /\ IsStateAdmin(request.email)
  /\ projects[request.id].created_by_email # request.email
  /\ request.status = "approved"
  /\ response = 403

\* C7: on a proposal whose status is 'approved' or 'declined' every PUT is
\* refused and the status is left unchanged, whoever calls and whatever is
\* requested: once approved or declined, the status never changes again.
C7_TerminalStatusFinal ==
  [][ ( PutOnStored /\ projects[request'.id].status \in {"approved", "declined"} )
      => (response' # 200 /\ projects' = projects) ]_vars

\* C8: of two interleaved PUT requests on one proposal, one asking 'approved' and
\* the other 'declined', at most one reports success.
C8_NoConflictingSuccess ==
  \A r1, r2 \in DOMAIN inflight :
    ( /\ inflight[r1].id = inflight[r2].id
      /\ inflight[r1].status = "approved"
      /\ inflight[r2].status = "declined" )
    => ~(inflight[r1].code = 200 /\ inflight[r2].code = 200)

\* C9: a PUT on a stored proposal by an unknown caller or by a caller whose role
\* is not admin is refused with 403 and changes nothing, whatever is requested.
C9_OnlyAdminsSetStatus ==
  [][ ( PutOnStored /\ ~IsAdmin(request'.email) )
      => (response' = 403 /\ projects' = projects) ]_vars

\* C9 witness: an employee other than the creator asked to approve a stored
\* proposal and got 403.
C9_Witness ==
  /\ request.method = "PUT" /\ request.id \in DOMAIN projects
  /\ IsEmployee(request.email)
  /\ projects[request.id].created_by_email # request.email
  /\ request.status = "approved"
  /\ response = 403

\* C10 as stated: a PUT on a stored proposal with a requested status outside
\* {approved, declined} is refused with 403 and changes nothing, for every caller
\* and current status.
C10_InvalidStatusForbidden ==
  [][ ( PutOnStored /\ request'.status \notin {"approved", "declined"} )
      => (response' = 403 /\ projects' = projects) ]_vars

\* C10 amended: such a PUT is refused and changes nothing for every caller and
\* current status; the answer is 403 when the caller is unknown, not an admin or
\* the proposal's creator, and 400 for every other administrator.
C10_InvalidStatusRefused ==
  [][ ( PutOnStored /\ request'.status \notin {"approved", "declined"} )
      => /\ projects' = projects
         /\ response' = IF ~IsAdmin(request'.email)
                           \/ projects[request'.id].created_by_email = request'.email
                        THEN 403 ELSE 400 ]_vars

\* C10 witness: an administrator other than the creator asked to set a stored
\* proposal back to 'pending' and got 400.
C10_Witness ==
  /\ request.method = "PUT" /\ request.id \in DOMAIN projects
  /\ IsAdmin(request.email)
  /\ projects[request.id].created_by_email # request.email
  /\ request.status = "pending"
  /\ response = 400

\* The columns of a project row other than its status.
WriteOnceColumns ==
  { "budget", "location", "tower_type", "substation_type", "geo", "taxes",
    "created_at", "created_by_email", "forecast_data" }

\* C11: a successful status update (PUT answered 200) changes only the status
\* of the proposal it names: that proposal's budget, location, tower type,
\* substation type, geo, taxes, creation timestamp, creator email and forecast
\* map keep their values, every other proposal is unchanged, no proposal is
\* added or removed, and the identities are unchanged.
C11_SetStatusFrame ==
  [][ (request'.method = "PUT" /\ response' = 200) =>
        /\ request'.id \in DOMAIN projects
        /\ DOMAIN projects' = DOMAIN projects
        /\ \A k \in WriteOnceColumns :
             projects'[request'.id][k] = projects[request'.id][k]
        /\ projects'[request'.id].status = request'.status
        /\ \A i \in DOMAIN projects \ {request'.id} : projects'[i] = projects[i]
        /\ users' = users ]_vars

\* C11 witness: a status update succeeded on one of two stored proposals and
\* the other proposal has a different status.
C11_Witness ==
  /\ request.method = "PUT" /\ response = 200
  /\ request.id \in DOMAIN projects
  /\ projects[request.id].status = request.status
  /\ \E i \in DOMAIN projects \ {request.id} : projects[i].status # request.status

\* C12: when a model's scorer fails at run time (not a ValueError) in a
\* creation request that is accepted when every scorer succeeds, the request
\* does not fail: it is answered 201 and a proposal is stored with one forecast
\* entry per registered model.
C12_ScorerFailureIsolated ==
  [][ \A f \in FeatureInputs, d \in DetailInputs :
        ( PostResponse(f, d, "ok") = 201 /\ Post(f, d, "RuntimeError") )
          => /\ response' = 201
             /\ request'.id \in DOMAIN projects' \ DOMAIN projects
             /\ DOMAIN projects'[request'.id].forecast_data = LOADED_MODELS ]_vars

\* The request is a creation whose budget or tower type is missing or does not
\* convert to a number.
MalformedCreation(req) == req.method = "POST" /\ ~NumericFieldsOk(req)

\* C13 as stated: every creation request whose budget or tower type is missing
\* or unparsable is answered 400 and stores no proposal, however many models
\* are registered.
C13_MalformedCreationIs400 ==
  [][ MalformedCreation(request') =>
        (response' = 400 /\ projects' = projects) ]_vars

\* C13 amended: such a request never stores a proposal and is never answered
\* with forecasts; it is answered 400 whenever at least one model is registered
\* and the creator is not a central administrator, 403 only for a central
\* administrator and 503 only while no model is registered.
C13_MalformedCreationRefused ==
  [][ MalformedCreation(request') =>
        /\ projects' = projects
        /\ response' \in {400, 403, 503}
        /\ response' = 403 => IsCentralAdmin(request'.email)
        /\ response' = 503 => LOADED_MODELS = {}
        /\ (LOADED_MODELS # {} /\ ~IsCentralAdmin(request'.email))
             => response' = 400 ]_vars

\* C13 witness: with five of the seven models registered, a creation request
\* of a registered employee with an unparsable budget was answered 400.
C13_Witness ==
  /\ request.method = "POST" /\ response = 400
  /\ request.budget = "abc"
  /\ IsEmployee(request.email)
  /\ Cardinality(LOADED_MODELS) = 5

\* C14: in every reachable state the forecast map of each stored proposal has
\* exactly the names of the registered models (LOADED_MODELS, fixed at process
\* start) as its keys.
C14_ForecastKeysAreRegistry ==
  \A i \in DOMAIN projects : DOMAIN projects[i].forecast_data = LOADED_MODELS

\* C14 witness: with five of the seven models registered a proposal is stored,
\* and its forecast map has five keys.
C14_Witness ==
  /\ Cardinality(LOADED_MODELS) = 5
  /\ request.method = "POST" /\ response = 201
  /\ request.id \in DOMAIN projects
  /\ Cardinality(DOMAIN projects[request.id].forecast_data) = 5

\* C15 as stated: while no model is registered every creation request is
\* answered 503 and stores no proposal.
C15_EmptyRegistryIs503 ==
  [][ (request'.method = "POST" /\ LOADED_MODELS = {}) =>
        (response' = 503 /\ projects' = projects) ]_vars

\* C15 amended: while no model is registered no creation request stores a
\* proposal; it is answered 503 when it names its creator and its budget and
\* the creator is not a central administrator, 403 only when the creator is a
\* central administrator, and 400 only when input features or project details
\* are missing.
C15_EmptyRegistryRefuses ==
  [][ (request'.method = "POST" /\ LOADED_MODELS = {}) =>
        /\ projects' = projects
        /\ response' \in {400, 403, 503}
        /\ response' = 403 => IsCentralAdmin(request'.email)
        /\ response' = 400 => (request'.budget = None \/ request'.email = None)
        /\ ( /\ request'.budget # None /\ request'.email # None
             /\ ~IsCentralAdmin(request'.email) ) => response' = 503 ]_vars

\* C15 witness: no model is registered and a registered employee's creation
\* request with well-formed features was answered 503.
C15_Witness ==
  /\ LOADED_MODELS = {}
  /\ request.method = "POST" /\ response = 503
  /\ IsEmployee(request.email)
  /\ NumericFieldsOk(request)
  /\ projects = [i \in {} |-> None]

\* The set of the rows of a GET's body.
Listed(rows) == { rows[k] : k \in DOMAIN rows }

\* The stored proposals that are pending in the state administrator's home
\* state, or that the administrator created.
StateAdminView(email) ==
  { i \in DOMAIN projects :
      \/ /\ get_state_from_city(projects[i].location) = users[email].state
         /\ projects[i].status = "pending"
      \/ projects[i].created_by_email = email }

\* C16: a GET by a state administrator is answered with exactly the stored
\* proposals that are pending at a location whose state (get_state_from_city) is
\* the caller's home state, or that the caller created, whatever the store and
\* the home state.
C16_StateAdminListing ==
  [][ (request'.method = "GET" /\ IsStateAdmin(request'.email)) =>
        /\ response' = 200
        /\ Listed(listing') = StateAdminView(request'.email) ]_vars

\* The same for the state administrators whose home state has a city in
\* CITY_TO_STATE_MAP: for them the listing is the one C16 states.
StateAdminListingOfMappedState ==
  [][ ( /\ request'.method = "GET" /\ IsStateAdmin(request'.email)
        /\ cities_in_admin_state(users[request'.email].state) # {} ) =>
        /\ response' = 200
        /\ Listed(listing') = StateAdminView(request'.email) ]_vars

\* The administrator's level is neither 'state' nor 'central'.
IsUnscopedAdmin(email) ==
  IsAdmin(email) /\ users[email].admin_level \notin {"state", "central"}

\* The stored proposals awaiting central approval.
AwaitingCentral ==
  { i \in DOMAIN projects : projects[i].status = "pending central approval" }

\* C17: a GET by a central administrator is answered with exactly the stored
\* proposals whose status is 'pending central approval', each once, a proposal
\* with a later creation timestamp never after one with an earlier timestamp;
\* a GET by an administrator whose level is neither 'state' nor 'central' is
\* answered with the empty list.
C17_CentralAdminListing ==
  [][ request'.method = "GET" =>
        /\ IsCentralAdmin(request'.email) =>
             /\ response' = 200
             /\ Listed(listing') = AwaitingCentral
             /\ Len(listing') = Cardinality(AwaitingCentral)
             /\ \A a, b \in DOMAIN listing' :
                  a < b => CreatedAtRank(projects[listing'[b]].created_at)
                             <= CreatedAtRank(projects[listing'[a]].created_at)
        /\ IsUnscopedAdmin(request'.email) =>
             (response' = 200 /\ listing' = <<>>) ]_vars

\* C17 witness: a central administrator's GET listed two proposals awaiting
\* central approval, the one with the later creation timestamp first.
C17_Witness ==
  /\ request.method = "GET" /\ response = 200
  /\ IsCentralAdmin(request.email)
  /\ Len(listing) = 2
  /\ CreatedAtRank(projects[listing[1]].created_at)
       > CreatedAtRank(projects[listing[2]].created_at)

\* A central administrator's GET listed one proposal and left out a stored
\* proposal that is approved.
CentralListingLeavesOutApproved ==
  /\ request.method = "GET" /\ response = 200
  /\ IsCentralAdmin(request.email)
  /\ \E i \in DOMAIN projects \ Listed(listing) : projects[i].status = "approved"
  /\ listing # <<>>

\* The requester of a DELETE is the proposal's creator or an administrator.
MayDelete(email, project_id) ==
  projects[project_id].created_by_email = email \/ IsAdmin(email)

\* C18: a DELETE on a stored proposal removes it, and nothing else, when the
\* requester's email is the proposal's creator email or the requester is an
\* administrator of any level and state, whatever the proposal's status; a
\* DELETE by any other requester is answered 403 and leaves the store unchanged.
C18_DeleteByCreatorOrAdmin ==
  [][ (request'.method = "DELETE" /\ request'.id \in DOMAIN projects) =>
        IF MayDelete(request'.email, request'.id)
        THEN /\ response' = 200
             /\ DOMAIN projects' = DOMAIN projects \ {request'.id}
             /\ \A i \in DOMAIN projects' : projects'[i] = projects[i]
        ELSE /\ response' = 403
             /\ projects' = projects ]_vars

\* C18 witness: an administrator's DELETE removed one of the two stored
\* proposals, and the one that remains was created by somebody else.
C18_Witness ==
  /\ request.method = "DELETE" /\ response = 200
  /\ IsAdmin(request.email)
  /\ request.id \notin DOMAIN projects
  /\ \E i \in DOMAIN projects : projects[i].created_by_email # request.email

\* An employee's DELETE of somebody else's proposal was refused and the
\* proposal is still stored.
DeleteRefusedForOtherEmployee ==
  /\ request.method = "DELETE" /\ response = 403
  /\ IsEmployee(request.email)
  /\ request.id \in DOMAIN projects
  /\ projects[request.id].created_by_email # request.email

\* C19: in every reachable state the creator email of each stored proposal is
\* the email of a stored identity.
C19_CreatorIsIdentity ==
  \A i \in DOMAIN projects : IsUser(projects[i].created_by_email)

\* The one-hot column names that the categorical fields of an input select.
OneHotColumns(input_data) ==
  (IF input_data.location = None THEN {}
   ELSE {"Location_ " \o input_data.location})
  \cup (IF input_data.substationType = "AIS (Air Insulated Substation)"
        THEN {"Substation_Type__AIS__Air_Insulated_Substation"} ELSE {})
  \cup (IF input_data.geo = None THEN {}
        ELSE {"Geographical_Zone_ " \o input_data.geo})
  \cup (IF input_data.taxes = None THEN {}
        ELSE {"Taxes_Applicable_" \o input_data.taxes})

\* The value of a column for an input: the voltage, the cost in millions, 1.0
\* for a one-hot column that the input selects, 0.0 for any other column.
ColumnValue(input_data, col) ==
  IF col = "Voltage_kV" THEN float(FirstToken(input_data.towerType))
  ELSE IF col = "Estimated_Cost_Million"
    THEN DividedByMillion(float(input_data.budget))
  ELSE IF col \in OneHotColumns(input_data) THEN "1.0"
  ELSE "0.0"

\* C20: whenever create_feature_vector returns (no ValueError), the list it
\* returns has as many entries as the schema has columns, entry i is the value
\* of the schema's i-th column, and the columns that no input field matches
\* are 0.0.
C20_VectorFollowsSchema ==
  (builder.called /\ builder.error = None) =>
     /\ Len(builder.features_ordered) = Len(builder.columns)
     /\ \A i \in DOMAIN builder.columns :
          builder.features_ordered[i]
            = ColumnValue(builder.input_data, builder.columns[i])

\* C20 witness: the vector of a schema of MaxColumns columns, one of them
\* listed twice, was returned, with a 0.0 for a column the input does not
\* match before the value of a column it matches.
C20_Witness ==
  /\ builder.called /\ builder.error = None
  /\ Len(builder.columns) = MaxColumns
  /\ builder.columns[1] = builder.columns[MaxColumns]
  /\ builder.features_ordered[1] = "0.0"
  /\ builder.features_ordered[2] \in {"1.0", "10.0", "400.0"}

\* The tower type or the budget of the input is absent, or is one of the
\* values that do not convert to a number.
NumericFieldMalformed(input_data) ==
  \/ input_data.towerType \in {None, "", "kV 400"}
  \/ input_data.budget \in {None, "abc"}

\* The schema has neither of the two numeric columns.
NoNumericColumn(columns) ==
  \A i \in DOMAIN columns :
    columns[i] \notin {"Voltage_kV", "Estimated_Cost_Million"}

\* C21: create_feature_vector raises ValueError whenever the tower type or the
\* budget is absent or unparsable, whatever the schema (also a schema without
\* the Voltage_kV and Estimated_Cost_Million columns), and otherwise returns a
\* vector whatever the categorical values are, matched by a column or not.
C21_NumericFieldsRequired ==
  builder.called =>
    IF NumericFieldMalformed(builder.input_data)
    THEN builder.error = "ValueError" /\ builder.features_ordered = <<>>
    ELSE builder.error = None

\* C21 witness: an unparsable budget raised ValueError for a schema of
\* MaxColumns columns that has neither numeric column.
C21_Witness ==
  /\ builder.called /\ builder.error = "ValueError"
  /\ builder.input_data.budget = "abc"
  /\ Len(builder.columns) = MaxColumns
  /\ NoNumericColumn(builder.columns)

\* A substation type, geo and taxes that no column of the schema matches gave
\* a vector, all 0.0 but the location's column.
UnknownCategoricalsDropped ==
  /\ builder.called /\ builder.error = None
  /\ builder.input_data.substationType = "GIS"
  /\ builder.columns = << "Substation_Type__AIS__Air_Insulated_Substation",
                          "Location_ Bengaluru", "Taxes_Applicable_18% GST" >>
  /\ builder.features_ordered = << "0.0", "1.0", "0.0" >>

\* The budgets that float() converts to infinity or to not-a-number.
NonFiniteBudgets == {"inf", "-inf", "nan"}

\* C22: create_feature_vector raises ValueError for every budget that does not
\* parse to a finite number ('inf', '-inf' and 'nan' included), and for a
\* finite budget b the Estimated_Cost_Million column holds b / 1,000,000
\* ("10000000" gives 10.0).
C22_BudgetFiniteAndScaled ==
  builder.called =>
    /\ builder.input_data.budget \in NonFiniteBudgets
         => builder.error = "ValueError"
    /\ builder.error = None =>
         \A i \in DOMAIN builder.columns :
           builder.columns[i] = "Estimated_Cost_Million" =>
             /\ builder.input_data.budget = "10000000"
                  => builder.features_ordered[i] = "10.0"
             /\ builder.input_data.budget = "2500000"
                  => builder.features_ordered[i] = "2.5"

\* The part of C22 about finite budgets: the cost column holds the budget
\* divided by 1,000,000.
FiniteBudgetScaled ==
  (builder.called /\ builder.error = None) =>
     \A i \in DOMAIN builder.columns :
       builder.columns[i] = "Estimated_Cost_Million" =>
         /\ builder.input_data.budget = "10000000"
              => builder.features_ordered[i] = "10.0"
         /\ builder.input_data.budget = "2500000"
              => builder.features_ordered[i] = "2.5"

\* The budget 'inf' gave a vector whose cost column is infinite.
InfiniteCostReturned ==
  /\ builder.called /\ builder.error = None
  /\ builder.input_data.budget = "inf"
  /\ builder.columns = << "Estimated_Cost_Million" >>
  /\ builder.features_ordered = << "inf" >>

\* The statuses of the lifecycle.
Statuses == {"pending", "pending central approval", "approved", "declined"}

\* C23: in every reachable state the status of each stored proposal is one of
\* 'pending', 'pending central approval', 'approved', 'declined'; a PUT answered
\* 200 asked for 'approved' or 'declined' and leaves exactly that status; and
\* no step changes the status of a stored proposal to anything but the
\* 'approved' or 'declined' that a PUT on it asked for, so a pending proposal
\* never becomes 'pending central approval'.
C23_StatusLifecycle ==
  /\ [](\A i \in DOMAIN projects : projects[i].status \in Statuses)
  /\ [][ /\ (request'.method = "PUT" /\ response' = 200) =>
              /\ request'.status \in {"approved", "declined"}
              /\ request'.id \in DOMAIN projects'
              /\ projects'[request'.id].status = request'.status
         /\ \A i \in DOMAIN projects \cap DOMAIN projects' :
              projects'[i].status # projects[i].status =>
                /\ request'.method = "PUT" /\ request'.id = i
                /\ projects'[i].status = request'.status
                /\ projects'[i].status \in {"approved", "declined"} ]_vars

\* C23 witness: an employee's proposal was pending and a PUT has just set it to
\* 'declined'.
C23_Witness ==
  /\ request.method = "PUT" /\ response = 200 /\ request.status = "declined"
  /\ request.id \in DOMAIN projects
  /\ IsEmployee(projects[request.id].created_by_email)
  /\ projects[request.id].status = "declined"

(* ------------------------------------------------------------------ *)
(* The server with state administrators of two regions                  *)
(* ------------------------------------------------------------------ *)

\* The identities of the regional store: an employee and two state
\* administrators.
RegionEmails == Emails \cup {"meera@co"}

\* The accepted signups of the three identities: asha as employee, ravi as
\* state administrator of Karnataka, meera as state administrator of
\* Maharashtra or of 'Unknown'.
RegionSignups ==
  { su \in [RegionEmails ->
              [password : {"pw"}, role : {"employee", "admin"},
               admin_level : {None, "state"},
               state : {None, "Karnataka", "Maharashtra", "Unknown"}]] :
      /\ su["asha@co"].role = "employee" /\ su["asha@co"].admin_level = None
      /\ su["asha@co"].state = None
      /\ su["ravi@co"].role = "admin" /\ su["ravi@co"].admin_level = "state"
      /\ su["ravi@co"].state = "Karnataka"
      /\ su["meera@co"].role = "admin" /\ su["meera@co"].admin_level = "state"
      /\ su["meera@co"].state \in {"Maharashtra", "Unknown"} }

\* The store after the three signups and two creation requests of the employee
\* were accepted (201), one after the other.
InitRegions ==
  /\ database_url \in {"postgres", "sqlite"}
  /\ LOADED_MODELS = MODEL_ASSET_MAPPING \ {"reactors", "tower"}
  /\ \E su \in RegionSignups : users = [e \in RegionEmails |-> NewUser(su[e])]
  /\ \E f \in [1 .. 2 -> {ValidFeatures(l) : l \in Locations}],
        d \in [1 .. 2 -> ReviewDetails] :
       /\ \A i \in 1 .. 2 : d[i].createdBy = "asha@co"
       /\ projects = [i \in 1 .. 2 |-> NewProject(f[i], d[i])]
       /\ request = [method |-> "POST", email |-> d[2].createdBy, id |-> 2,
                     status |-> d[2].status,
                     budget |-> f[2].budget, towerType |-> f[2].towerType]
  /\ project_id_seq = 0
  /\ response = 201
  /\ inflight = [r \in {} |-> None]
  /\ listing = <<>>
  /\ builder = NoCall

DoPutRegions ==
  \E email \in RegionEmails \cup {None}, project_id \in ProjectIds,
     new_status \in RequestedStatuses :
       Put(email, project_id, new_status)

DoDeleteRegions ==
  \E requester_email \in RegionEmails \cup {None}, project_id \in ProjectIds :
       Delete(requester_email, project_id)

NextRegions == DoPutRegions \/ DoDeleteRegions

SpecRegions == InitRegions /\ [][NextRegions]_vars

\* The step is a PUT by a state administrator on stored proposal i whose
\* location resolves to a region other than the administrator's home state.
PutFromOtherRegion(i) ==
  /\ request'.method = "PUT" /\ request'.id = i
  /\ IsStateAdmin(request'.email)
  /\ users[request'.email].state # get_state_from_city(projects[i].location)

\* C24: a PUT by a state administrator on a proposal whose location resolves to
\* a region other than the administrator's home state leaves the proposal's
\* status as it was, whatever that status is.
C24_OtherRegionNeverChanged ==
  [][ \A i \in DOMAIN projects :
        PutFromOtherRegion(i) =>
          i \in DOMAIN projects' /\ projects'[i].status = projects[i].status ]_vars

\* While the proposal awaits a decision, the PUT of a state administrator of
\* another region is refused (403, or 400 for a status that cannot be
\* requested) and changes nothing.
OtherRegionRefusedWhileAwaiting ==
  [][ \A i \in DOMAIN projects :
        (PutFromOtherRegion(i)
           /\ projects[i].status \in {"pending", "pending central approval"}) =>
          response' \in {400, 403} /\ projects' = projects ]_vars

\* A state administrator of another region has just declined a proposal that
\* the administrator of its region had approved.
OtherRegionOverturnsDecision ==
  /\ request.method = "PUT" /\ response = 200 /\ request.status = "declined"
  /\ request.id \in DOMAIN projects
  /\ IsStateAdmin(request.email)
  /\ users[request.email].state
       # get_state_from_city(projects[request.id].location)
  /\ projects[request.id].status = "declined"

\* The step is a PUT on stored proposal i, which is 'pending' at a location
\* that is not a key of CITY_TO_STATE_MAP.
PutOnUnmappedPending(i) ==
  /\ request'.method = "PUT" /\ request'.id = i
  /\ projects[i].status = "pending"
  /\ projects[i].location \notin DOMAIN CITY_TO_STATE_MAP

\* C25: every PUT on a 'pending' proposal whose location is not a key of
\* CITY_TO_STATE_MAP is refused, whoever the caller is, and the proposal stays
\* 'pending'.
C25_UnmappedPendingNeverMoves ==
  [][ \A i \in DOMAIN projects :
        PutOnUnmappedPending(i) =>
          /\ response' # 200
          /\ i \in DOMAIN projects' /\ projects'[i].status = "pending" ]_vars

\* Callers whose home state is not the resolver's fallback are refused on such
\* a proposal.
UnmappedPendingRefusedForMappedState ==
  [][ \A i \in DOMAIN projects :
        (PutOnUnmappedPending(i)
           /\ ~(IsStateAdmin(request'.email)
                  /\ users[request'.email].state = "Unknown")) =>
          response' # 200 /\ projects' = projects ]_vars

\* A state administrator whose home state is 'Unknown' has just approved a
\* proposal at an unmapped location.
UnknownStateAdminApproves ==
  /\ request.method = "PUT" /\ response = 200 /\ request.status = "approved"
  /\ request.id \in DOMAIN projects
  /\ projects[request.id].location \notin DOMAIN CITY_TO_STATE_MAP
  /\ projects[request.id].status = "approved"
  /\ IsEmployee(projects[request.id].created_by_email)
  /\ users[request.email].state = "Unknown"

\* The stored proposals awaiting a decision that the handler of PUT lets the
\* administrator decide.
MayTransition(email) ==
  { i \in DOMAIN projects :
      /\ projects[i].status \in {"pending", "pending central approval"}
      /\ PutChecks(email, i, "approved") = 200 }

\* C26: in every reachable state, each proposal that is 'pending' or 'pending
\* central approval' and that the handler of PUT lets an administrator decide
\* is among the rows that the handler of GET selects for that administrator.
C26_ListingCoversAuthority ==
  \A email \in DOMAIN users :
    IsAdmin(email) => MayTransition(email) \subseteq GetProjects(email)

\* The same for the administrators whose home state is not the resolver's
\* fallback: what they may decide is listed for them.
ListingCoversAuthorityOfMappedState ==
  \A email \in DOMAIN users :
    (IsAdmin(email)
       /\ ~(IsStateAdmin(email) /\ users[email].state = "Unknown")) =>
      MayTransition(email) \subseteq GetProjects(email)

\* An administrator may decide one of the two stored proposals, and it is
\* listed for that administrator.
AuthorizedAndListed ==
  \E email \in DOMAIN users :
    /\ IsAdmin(email) /\ MayTransition(email) # {}
    /\ MayTransition(email) \subseteq GetProjects(email)

\* A state administrator's GET was answered without a proposal that the same
\* administrator is let to approve.
ListHidesAuthorizedProposal ==
  /\ request.method = "GET" /\ response = 200 /\ IsStateAdmin(request.email)
  /\ \E i \in MayTransition(request.email) : i \notin Listed(listing)

====
